---- MODULE Spec2Model ----
(***************************************************************************)
(* State-machine model of the Google Calendar MCP server (src/main.py).    *)
(*                                                                         *)
(* The process starts (module-level configuration checks), then serves     *)
(* tool invocations one at a time.  Every tool is a try/except wrapper     *)
(* around one GoogleCalendarTools operation, which first authenticates     *)
(* through GoogleCalendarAuth and then talks to the calendar provider.     *)
(* Remote parties (vault, token endpoint, provider) are nondeterministic:  *)
(* each remote call draws its answer from a small set.  Every remote call  *)
(* an invocation issues is appended to the log `calls`.                    *)
(*                                                                         *)
(* Strings of the program are kept as strings; formatted strings are       *)
(* tuples of their parts (f"http_error_{s}" is <<"http_error_", s>>).      *)
(* json.dumps of a dict keeps its keys and values; the returned JSON text  *)
(* is represented by the record it serialises.                             *)
(***************************************************************************)
EXTENDS Integers, Sequences, FiniteSets, TLC

\* ------------------------------------------------------------------ bounds
\* Number of tool invocations explored in one run of the server.
MaxInvocations == 3
\* Longest chain of calendar-list pages the provider serves.
MaxPages == 3
\* Clock resolution: instants per calendar day.
TicksPerDay == 4

\* ------------------------------------------------------- program constants
\* max_results passed by get_today_events / get_upcoming_events.
DerivedMaxResults == 50
\* default max_results of the get_calendar_events tool.
DefaultMaxResults == 10

\* ------------------------------------------------------------ input sets
CalendarIds == {"primary", "work"}
\* calendar_id arguments drawn for get_today_events / get_upcoming_events.
DerivedCalendarIds == {"primary"}
EventIds == {"e1", "e2"}
Summaries == {"", "standup"}
HttpStatuses == {"403", "404", "500"}
VaultHttpStatuses == {"401"}
NoToken == "None"
PageTokens == {"t1", "t2"}
PageItemChoices == {<<>>, <<"c1">>, <<"c2", "c1">>}
EventListChoices == {<<>>, <<"e1">>, <<"e2", "e1">>}
MaxResultsArgs == {0, DefaultMaxResults}
DaysAheadArgs == {1, 7}
\* Offsets of local time from UTC, in ticks.
TZOffsets == {-1, 0, 1}
\* Instants (UTC ticks since an epoch midnight) at which a tool may be called.
Instants == TicksPerDay .. (2 * TicksPerDay - 1)

\* A timestamp string: the wall-clock reading and the zone designator
\* written after it.  NoneTime is Python's None (argument omitted).
NoneTime == [wall |-> 0, zone |-> "None"]
TimeRanges ==
    {[min |-> NoneTime, max |-> NoneTime],
     [min |-> [wall |-> TicksPerDay, zone |-> "Z"], max |-> NoneTime],
     [min |-> [wall |-> TicksPerDay, zone |-> "Z"],
      max |-> [wall |-> 2 * TicksPerDay, zone |-> "Z"]]}

\* Exceptions: the class and, for HTTP errors, the status carried.
NoExc == [type |-> "none", status |-> ""]
Exc(t, s) == [type |-> t, status |-> s]
\* str(exception), as used in f-strings and in the tools' error field.
Str(x) == <<x.type, x.status>>

\* ------------------------------------------------------- remote answers
\* The vault's credentials payload: whether access_token / refresh_token
\* are present, and whether the stored access token is already past its
\* expiry (the vault reports it as expires_at; the program never reads it).
NoPayload == [access_token |-> FALSE, refresh_token |-> FALSE, stale |-> FALSE]
Payloads ==
    {p \in [access_token : BOOLEAN, refresh_token : BOOLEAN, stale : BOOLEAN] :
        p.stale => p.access_token}
VaultResponses ==
    {[outcome |-> "ok", status |-> "200", payload |-> p] : p \in Payloads}
    \cup {[outcome |-> "http", status |-> s, payload |-> NoPayload] : s \in VaultHttpStatuses}
    \cup {[outcome |-> "fault", status |-> "", payload |-> NoPayload]}
\* Everything authentication depends on: the vault's answer, whether a
\* refresh exchange would succeed, whether build() succeeds.
\* A failing refresh exchange and a failing build() are each drawn with
\* one payload that can reach them.
AuthWorlds ==
    {w \in [vault : VaultResponses, refresh : BOOLEAN, build : BOOLEAN] :
        /\ ~w.refresh =>
              w.vault.payload = [access_token |-> TRUE, refresh_token |-> TRUE, stale |-> TRUE]
        /\ ~w.build =>
              w.vault.payload = [access_token |-> TRUE, refresh_token |-> TRUE, stale |-> FALSE]}

\* A provider answer: a 2xx body (items, nextPageToken), an HTTP error, or
\* any other fault (transport error, malformed body).
NoResponse == [outcome |-> "none", status |-> "", items |-> <<>>, next |-> NoToken]
ProviderErrors ==
    {[outcome |-> "http", status |-> s, items |-> <<>>, next |-> NoToken] : s \in HttpStatuses}
    \cup {[outcome |-> "fault", status |-> "", items |-> <<>>, next |-> NoToken]}
OkResponse(items, next) == [outcome |-> "ok", status |-> "200", items |-> items, next |-> next]
EventsResponses == {OkResponse(l, NoToken) : l \in EventListChoices} \cup ProviderErrors
InsertResponses == {OkResponse(<<"created">>, NoToken)} \cup ProviderErrors
DeleteResponses == {OkResponse(<<>>, NoToken)} \cup ProviderErrors
\* The exception execute() raises for a failed provider answer.
ProviderExc(p) == IF p.outcome = "http" THEN Exc("HttpError", p.status) ELSE Exc("Exception", "")

\* ---------------------------------------------------------- remote calls
\* One entry of the call log: which endpoint, the invocation that issued
\* it, the credential it carried (0: none) and whether that credential's
\* access token was past its expiry, and the pageToken parameter.
VaultCall(n) == [kind |-> "vault", inv |-> n, cred |-> 0, stale |-> FALSE, token |-> NoToken]
RefreshCall(n) == [kind |-> "refresh", inv |-> n, cred |-> 0, stale |-> FALSE, token |-> NoToken]
ProviderCall(k, n, svc, tok) == [kind |-> k, inv |-> n, cred |-> svc.id, stale |-> svc.stale, token |-> tok]
ProviderKinds == {"calendarList.list", "events.list", "events.insert", "events.delete"}

\* --------------------------------------------------------------- state
VARIABLES
    phase,      \* "boot", "serving" or "crashed"
    env,        \* which of the four configuration values are set
    pc,         \* "idle", "paging" (inside get_all_calendars' loop) or "returned"
    nInv,       \* number of tool invocations started
    cur,        \* the running / last invocation: tool, arguments, provider answer used
    calls,      \* remote calls issued by the running / last invocation
    service,    \* the service object held by the running invocation
    calendars,  \* get_all_calendars: local `calendars`
    page_token, \* get_all_calendars: local `page_token`
    pages,      \* get_all_calendars: the successful pages received so far
    result,     \* the envelope the last invocation returned
    crossed,    \* an exception left a tool function
    not_found   \* per event id: how many cancels the provider answered 404, and
                \* the result the first of them returned

vars == <<phase, env, pc, nInv, cur, calls, service, calendars, page_token, pages,
          result, crossed, not_found>>

NoService == [id |-> 0, stale |-> FALSE]
NoResult == [none |-> TRUE]
NoArgs == [none |-> TRUE]
NoClock == [t |-> 0, off |-> 0]

\* Evaluate v once and use its value as Op's argument (a local variable).
With(v, Op(_)) == CHOOSE y \in {Op(b) : b \in {v}} : TRUE

\* ------------------------------------------------------- authentication
\* Mutant of module_level_checks: only the connection identifier is checked.
module_level_checks_conn_only(e) == IF ~e.conn THEN "crashed" ELSE "serving"

\* Module level: the process raises ValueError at import when the
\* connection or the integration identifier is unset or empty.
module_level_checks(e) ==
    IF ~e.conn THEN "crashed"
    ELSE IF ~e.integ THEN "crashed"
    ELSE "serving"

\* GoogleCalendarAuth.get_connection_credentials: the vault read.
get_connection_credentials(e, n, vault) ==
    IF ~e.base \/ ~e.key
    THEN [calls |-> <<>>, raised |-> Exc("ValueError", ""), resp |-> NoPayload]
    ELSE IF vault.outcome = "fault"
    THEN [calls |-> <<VaultCall(n)>>, raised |-> Exc("RequestException", ""), resp |-> NoPayload]
    ELSE IF vault.outcome = "http"
    THEN [calls |-> <<VaultCall(n)>>, raised |-> Exc("requests.HTTPError", vault.status),
          resp |-> NoPayload]
    ELSE [calls |-> <<VaultCall(n)>>, raised |-> NoExc, resp |-> vault.payload]

\* Credentials(token=..., refresh_token=..., ...): no expiry is passed, so
\* the object's expiry is None whatever the vault knows about the token.
Credentials(token, refresh_token) ==
    [token |-> token, refresh_token |-> refresh_token, expiry |-> "None"]
\* creds.expired: a credential without expiry is never expired.
expired(c) == IF c.expiry = "None" THEN FALSE ELSE c.expiry = "past"
\* creds.valid: a token is present and the credential is not expired.
valid(c) == c.token /\ ~expired(c)

\* Mutant of authenticate_google_calendar: the service built by the first
\* invocation is kept at module level and handed to every later one.
authenticate_cached(e, n, w) ==
    With(get_connection_credentials(e, n, w.vault), LAMBDA g :
        IF n > 1
        THEN [calls |-> <<>>, raised |-> NoExc, service |-> [id |-> 1, stale |-> FALSE]]
        ELSE IF g.raised # NoExc
        THEN [calls |-> g.calls, raised |-> g.raised, service |-> NoService]
        ELSE IF ~g.resp.access_token \/ ~w.build
        THEN [calls |-> g.calls, raised |-> Exc("Exception", ""), service |-> NoService]
        ELSE [calls |-> g.calls, raised |-> NoExc,
              service |-> [id |-> n, stale |-> g.resp.stale]])

\* GoogleCalendarAuth.authenticate_google_calendar.  The except clause
\* logs and re-raises, so every exception leaves the function unchanged.
authenticate_google_calendar(e, n, w) ==
    With(get_connection_credentials(e, n, w.vault), LAMBDA g :
    With(Credentials(g.resp.access_token, g.resp.refresh_token), LAMBDA creds :
    With(~valid(creds) /\ expired(creds) /\ creds.refresh_token, LAMBDA doRefresh :
    With(IF doRefresh THEN Append(g.calls, RefreshCall(n)) ELSE g.calls, LAMBDA cs :
        IF g.raised # NoExc
        THEN [calls |-> g.calls, raised |-> g.raised, service |-> NoService]
        ELSE IF ~valid(creds) /\ ~doRefresh
        THEN [calls |-> g.calls, raised |-> Exc("Exception", "invalid credentials"),
              service |-> NoService]
        ELSE IF doRefresh /\ ~w.refresh
        THEN [calls |-> cs, raised |-> Exc("RefreshError", ""), service |-> NoService]
        ELSE IF ~w.build
        THEN [calls |-> cs, raised |-> Exc("Exception", "build"), service |-> NoService]
        ELSE [calls |-> cs, raised |-> NoExc,
              service |-> [id |-> n,
                           stale |-> IF doRefresh THEN FALSE ELSE g.resp.stale]]))))

\* ------------------------------------------------------------ formatting
\* str(n) / f"{n}" for the small counts that occur.
NumStr(n) == <<"0", "1", "2", "3", "4", "5", "6", "7", "8", "9", "10", "11", "12">>[n + 1]

\* datetime.now(): the naive local wall-clock reading at instant t on a
\* machine whose local time is `off` ticks ahead of UTC.
datetime_now(t, off) == t + off
\* d.replace(hour=0, minute=0, second=0, microsecond=0)
start_of_day(d) == (d \div TicksPerDay) * TicksPerDay
\* d.replace(hour=23, minute=59, second=59, microsecond=999999): the last
\* representable reading of the same day.
end_of_day(d) == (d \div TicksPerDay) * TicksPerDay + (TicksPerDay - 1)
\* d + timedelta(days=k)
plus_days(d, k) == d + k * TicksPerDay
\* d.isoformat() + 'Z': the naive reading, followed by the UTC designator.
isoformat_Z(d) == [wall |-> d, zone |-> "Z"]
\* The instant a timestamp string denotes to its reader (RFC 3339: the
\* designator Z is offset zero, whatever clock produced the reading).
InstantOf(ts) == ts.wall

\* ------------------------------------------------- GoogleCalendarTools
\* Mutant of get_calendar_events_except: the HttpError clause is missing, so
\* an HTTP error falls into the generic clause.
get_calendar_events_except_generic(x, calendar_id) ==
    [success |-> FALSE,
     message |-> <<"Unexpected error occurred: ">> \o Str(x),
     error |-> <<"unexpected_error">>,
     calendar_id |-> calendar_id]

\* The two except clauses of GoogleCalendarTools.get_calendar_events.
get_calendar_events_except(x, calendar_id) ==
    IF x.type = "HttpError"
    THEN [success |-> FALSE,
          message |-> <<"HTTP error occurred: ">> \o Str(x),
          error |-> <<"http_error_", x.status>>,
          calendar_id |-> calendar_id]
    ELSE [success |-> FALSE,
          message |-> <<"Unexpected error occurred: ">> \o Str(x),
          error |-> <<"unexpected_error">>,
          calendar_id |-> calendar_id]

\* The formatting loop: one formatted event per provider event, in order.
formatted_events(events, calendar_id) ==
    [i \in 1..Len(events) |-> [id |-> events[i], calendar_id |-> calendar_id]]

\* GoogleCalendarTools.get_calendar_events.  time_min / time_max /
\* max_results only become request parameters; this operation never raises.
GoogleCalendarTools_get_calendar_events(e, n, calendar_id, time_min, time_max, max_results, w, p) ==
    With(authenticate_google_calendar(e, n, w), LAMBDA a :
    With(Append(a.calls, ProviderCall("events.list", n, a.service, NoToken)), LAMBDA cs :
    With(formatted_events(p.items, calendar_id), LAMBDA fe :
        IF a.raised # NoExc
        THEN [calls |-> a.calls, answered |-> NoResponse, raised |-> NoExc,
              ret |-> get_calendar_events_except(a.raised, calendar_id)]
        ELSE IF p.outcome # "ok"
        THEN [calls |-> cs, answered |-> p, raised |-> NoExc,
              ret |-> get_calendar_events_except(ProviderExc(p), calendar_id)]
        ELSE [calls |-> cs, answered |-> p, raised |-> NoExc,
              ret |-> [success |-> TRUE,
                       events |-> fe,
                       total_events |-> Len(fe),
                       calendar_id |-> calendar_id,
                       message |-> <<"Retrieved ", NumStr(Len(fe)),
                                     " events successfully">>]])))

\* GoogleCalendarTools.create_meet_event: authenticates, then checks the
\* summary, then inserts.  Every failure is turned into None.
NoneEvent == [present |-> FALSE, id |-> ""]
GoogleCalendarTools_create_meet_event(e, n, summary, calendar_id, w, p) ==
    With(authenticate_google_calendar(e, n, w), LAMBDA a :
    With(Append(a.calls, ProviderCall("events.insert", n, a.service, NoToken)), LAMBDA cs :
        IF a.raised # NoExc
        THEN [calls |-> a.calls, answered |-> NoResponse, raised |-> NoExc, ret |-> NoneEvent]
        ELSE IF summary = ""
        THEN [calls |-> a.calls, answered |-> NoResponse, raised |-> NoExc, ret |-> NoneEvent]
        ELSE IF p.outcome # "ok"
        THEN [calls |-> cs, answered |-> p, raised |-> NoExc, ret |-> NoneEvent]
        ELSE [calls |-> cs, answered |-> p, raised |-> NoExc,
              ret |-> [present |-> TRUE, id |-> p.items[1]]]))

\* Mutant of cancel_calendar_event_except: the 403 branch is missing.
cancel_calendar_event_except_no403(x, event_id) ==
    IF x.type = "HttpError" /\ x.status = "404"
    THEN [success |-> FALSE,
          message |-> <<"Event not found: ", event_id>>,
          error |-> <<"event_not_found">>,
          event_id |-> event_id]
    ELSE IF x.type = "HttpError"
    THEN [success |-> FALSE,
          message |-> <<"HTTP error occurred: ">> \o Str(x),
          error |-> <<"http_error">>,
          event_id |-> event_id]
    ELSE [success |-> FALSE,
          message |-> <<"Unexpected error occurred: ">> \o Str(x),
          error |-> <<"unexpected_error">>,
          event_id |-> event_id]

\* The except clauses of GoogleCalendarTools.cancel_calendar_event.
cancel_calendar_event_except(x, event_id) ==
    IF x.type = "HttpError" /\ x.status = "404"
    THEN [success |-> FALSE,
          message |-> <<"Event not found: ", event_id>>,
          error |-> <<"event_not_found">>,
          event_id |-> event_id]
    ELSE IF x.type = "HttpError" /\ x.status = "403"
    THEN [success |-> FALSE,
          message |-> <<"Insufficient permissions to cancel this event">>,
          error |-> <<"permission_denied">>,
          event_id |-> event_id]
    ELSE IF x.type = "HttpError"
    THEN [success |-> FALSE,
          message |-> <<"HTTP error occurred: ">> \o Str(x),
          error |-> <<"http_error">>,
          event_id |-> event_id]
    ELSE [success |-> FALSE,
          message |-> <<"Unexpected error occurred: ">> \o Str(x),
          error |-> <<"unexpected_error">>,
          event_id |-> event_id]

\* GoogleCalendarTools.cancel_calendar_event; never raises.
GoogleCalendarTools_cancel_calendar_event(e, n, calendar_id, event_id, w, p) ==
    With(authenticate_google_calendar(e, n, w), LAMBDA a :
    With(Append(a.calls, ProviderCall("events.delete", n, a.service, NoToken)), LAMBDA cs :
        IF a.raised # NoExc
        THEN [calls |-> a.calls, answered |-> NoResponse, raised |-> NoExc,
              ret |-> cancel_calendar_event_except(a.raised, event_id)]
        ELSE IF p.outcome # "ok"
        THEN [calls |-> cs, answered |-> p, raised |-> NoExc,
              ret |-> cancel_calendar_event_except(ProviderExc(p), event_id)]
        ELSE [calls |-> cs, answered |-> p, raised |-> NoExc,
              ret |-> [success |-> TRUE,
                       message |-> <<"Event ", event_id, " successfully cancelled">>,
                       event_id |-> event_id,
                       calendar_id |-> calendar_id]]))

\* ---------------------------------------------------------------- tools
\* Mutant of tool_except: the handler logs and re-raises.
tool_except_reraise(x, text) ==
    [crossed |-> TRUE,
     result |-> [success |-> FALSE, error |-> Str(x), message |-> <<text>>]]

\* The `except Exception` clause every tool function ends with: the
\* exception is logged and a failure envelope is returned instead.
tool_except(x, text) ==
    [crossed |-> FALSE,
     result |-> [success |-> FALSE, error |-> Str(x), message |-> <<text>>]]

\* Tool get_calendar_events.
get_calendar_events(e, n, calendar_id, time_min, time_max, max_results, w, p) ==
    With(GoogleCalendarTools_get_calendar_events(e, n, calendar_id, time_min, time_max,
                                                 max_results, w, p), LAMBDA r :
    With(IF r.raised # NoExc
         THEN tool_except(r.raised, "Failed to retrieve calendar events")
         ELSE [crossed |-> FALSE, result |-> r.ret], LAMBDA out :
        [calls |-> r.calls, answered |-> r.answered, crossed |-> out.crossed,
         result |-> out.result,
         args |-> [calendar_id |-> calendar_id, time_min |-> time_min,
                   time_max |-> time_max, max_results |-> max_results]]))

\* Tool create_meet_event.
create_meet_event(e, n, summary, calendar_id, w, p) ==
    With(GoogleCalendarTools_create_meet_event(e, n, summary, calendar_id, w, p), LAMBDA r :
    With(IF r.raised # NoExc
         THEN tool_except(r.raised, "Failed to create calendar event")
         ELSE IF r.ret.present
         THEN [crossed |-> FALSE,
               result |-> [success |-> TRUE, event |-> r.ret.id,
                           message |-> <<"Event created successfully">>]]
         ELSE [crossed |-> FALSE,
               result |-> [success |-> FALSE, message |-> <<"Failed to create event">>]],
         LAMBDA out :
        [calls |-> r.calls, answered |-> r.answered, crossed |-> out.crossed,
         result |-> out.result]))

\* Tool cancel_calendar_event.
cancel_calendar_event(e, n, calendar_id, event_id, w, p) ==
    With(GoogleCalendarTools_cancel_calendar_event(e, n, calendar_id, event_id, w, p), LAMBDA r :
    With(IF r.raised # NoExc
         THEN tool_except(r.raised, "Failed to cancel calendar event")
         ELSE [crossed |-> FALSE, result |-> r.ret], LAMBDA out :
        [calls |-> r.calls, answered |-> r.answered, crossed |-> out.crossed,
         result |-> out.result]))

\* Tool get_today_events, called at instant t on a machine at offset off.
get_today_events(e, n, calendar_id, t, off, w, p) ==
    With(datetime_now(t, off), LAMBDA today :
    With(isoformat_Z(start_of_day(today)), LAMBDA time_min :
    With(isoformat_Z(end_of_day(today)), LAMBDA time_max :
        get_calendar_events(e, n, calendar_id, time_min, time_max, DerivedMaxResults, w, p))))

\* Tool get_upcoming_events.
get_upcoming_events(e, n, days_ahead, calendar_id, t, off, w, p) ==
    With(datetime_now(t, off), LAMBDA now :
    With(plus_days(now, days_ahead), LAMBDA future :
        get_calendar_events(e, n, calendar_id, isoformat_Z(now), isoformat_Z(future),
                            DerivedMaxResults, w, p)))

\* ------------------------------------------------- get_all_calendars
\* The provider's possible answers to the page request that follows k
\* successful pages; the chain of pages is at most MaxPages long.
PageResponses(k) ==
    {OkResponse(l, nx) : l \in PageItemChoices,
                         nx \in (IF k + 1 < MaxPages THEN PageTokens \cup {NoToken}
                                                     ELSE {NoToken})}
    \cup ProviderErrors

\* The request of one loop iteration: pageToken is sent when page_token is set.
page_request(svc, n, tok) == ProviderCall("calendarList.list", n, svc, tok)

\* Mutant of list_iteration: each page's items are put in front of the
\* calendars collected so far.
list_iteration_prepend(cals, tok, p) ==
    IF p.outcome # "ok"
    THEN [calendars |-> cals, page_token |-> tok, break |-> FALSE, raised |-> ProviderExc(p)]
    ELSE [calendars |-> p.items \o cals, page_token |-> p.next,
          break |-> (p.next = NoToken), raised |-> NoExc]

\* The body of the while loop after the answer p arrived: extend
\* `calendars` by the page's items, take its nextPageToken, break when
\* there is none.  A failed request raises out of the loop.
list_iteration(cals, tok, p) ==
    IF p.outcome # "ok"
    THEN [calendars |-> cals, page_token |-> tok, break |-> FALSE, raised |-> ProviderExc(p)]
    ELSE [calendars |-> cals \o p.items, page_token |-> p.next,
          break |-> (p.next = NoToken), raised |-> NoExc]

\* Mutant of GoogleCalendarTools_get_all_calendars_except: the handler
\* returns the calendars collected so far instead of re-raising.
get_all_calendars_except_partial(x, cals) ==
    IF x = NoExc THEN [raised |-> x, ret |-> <<>>] ELSE [raised |-> NoExc, ret |-> cals]

\* The except clauses of GoogleCalendarTools.get_all_calendars: log and
\* re-raise; nothing is returned.
GoogleCalendarTools_get_all_calendars_except(x, cals) == [raised |-> x, ret |-> <<>>]

\* Tool get_all_calendars, given what GoogleCalendarTools.get_all_calendars
\* raised or returned.
get_all_calendars(raised, cals) ==
    IF raised # NoExc
    THEN tool_except(raised, "Failed to retrieve calendars")
    ELSE [crossed |-> FALSE,
          result |-> [success |-> TRUE,
                      calendars |-> cals,
                      total_calendars |-> Len(cals),
                      message |-> <<"Retrieved ", NumStr(Len(cals)), " calendars successfully">>]]

\* -------------------------------------------------------------- actions
Envs == [conn : BOOLEAN, integ : BOOLEAN, base : BOOLEAN, key : BOOLEAN]

Init ==
    /\ phase = "boot"
    /\ env \in Envs
    /\ pc = "idle"
    /\ nInv = 0
    /\ cur = [tool |-> "none", args |-> NoArgs, answered |-> NoResponse, clock |-> NoClock]
    /\ calls = <<>>
    /\ service = NoService
    /\ calendars = <<>>
    /\ page_token = NoToken
    /\ pages = <<>>
    /\ result = NoResult
    /\ crossed = FALSE
    /\ not_found = [x \in EventIds |-> [n |-> 0, first |-> NoResult]]

\* Import of the module: the configuration checks, then mcp.run().
Startup ==
    /\ phase = "boot"
    /\ phase' = module_level_checks(env)
    /\ UNCHANGED <<env, pc, nInv, cur, calls, service, calendars, page_token, pages,
                   result, crossed, not_found>>

\* The serving loop dispatches one invocation at a time.
CanInvoke == phase = "serving" /\ pc = "idle" /\ nInv < MaxInvocations

\* mcp.run(): the returned JSON text is sent to the caller and the loop
\* waits for the next request; nothing of the invocation is kept.
Respond ==
    /\ phase = "serving"
    /\ pc = "returned"
    /\ pc' = "idle"
    /\ cur' = [tool |-> "none", args |-> NoArgs, answered |-> NoResponse, clock |-> NoClock]
    /\ calls' = <<>>
    /\ pages' = <<>>
    /\ result' = NoResult
    /\ UNCHANGED <<phase, env, nInv, service, calendars, page_token, crossed, not_found>>

\* What every tool that runs to completion in one step leaves behind.
Returned(tool, r, args, clock) ==
    /\ nInv' = nInv + 1
    /\ cur' = [tool |-> tool, args |-> args, answered |-> r.answered, clock |-> clock]
    /\ calls' = r.calls
    /\ result' = r.result
    /\ crossed' = (crossed \/ r.crossed)
    /\ pages' = <<>>
    /\ pc' = "returned"
    /\ UNCHANGED <<phase, env, service, calendars, page_token>>

Call_get_calendar_events ==
    /\ CanInvoke
    /\ \E calendar_id \in CalendarIds, tr \in TimeRanges,
          max_results \in MaxResultsArgs, w \in AuthWorlds, p \in EventsResponses :
          \E r \in {get_calendar_events(env, nInv + 1, calendar_id, tr.min, tr.max,
                                        max_results, w, p)} :
              Returned("get_calendar_events", r, r.args, NoClock)
    /\ UNCHANGED not_found

Call_get_today_events ==
    /\ CanInvoke
    /\ \E calendar_id \in DerivedCalendarIds, t \in Instants, off \in TZOffsets,
          w \in AuthWorlds, p \in EventsResponses :
          \E r \in {get_today_events(env, nInv + 1, calendar_id, t, off, w, p)} :
              Returned("get_today_events", r, r.args, [t |-> t, off |-> off])
    /\ UNCHANGED not_found

Call_get_upcoming_events ==
    /\ CanInvoke
    /\ \E days_ahead \in DaysAheadArgs, calendar_id \in DerivedCalendarIds, t \in Instants,
          off \in TZOffsets, w \in AuthWorlds, p \in EventsResponses :
          \E r \in {get_upcoming_events(env, nInv + 1, days_ahead, calendar_id, t, off, w, p)} :
              Returned("get_upcoming_events", r, r.args, [t |-> t, off |-> off])
    /\ UNCHANGED not_found

Call_create_meet_event ==
    /\ CanInvoke
    /\ \E summary \in Summaries, calendar_id \in CalendarIds,
          w \in AuthWorlds, p \in InsertResponses :
          \E r \in {create_meet_event(env, nInv + 1, summary, calendar_id, w, p)} :
              Returned("create_meet_event", r,
                       [summary |-> summary, calendar_id |-> calendar_id], NoClock)
    /\ UNCHANGED not_found

Call_cancel_calendar_event ==
    /\ CanInvoke
    /\ \E calendar_id \in CalendarIds, event_id \in EventIds,
          w \in AuthWorlds, p \in DeleteResponses :
          \E r \in {cancel_calendar_event(env, nInv + 1, calendar_id, event_id, w, p)},
             old \in {not_found[event_id]} :
              /\ Returned("cancel_calendar_event", r,
                          [calendar_id |-> calendar_id, event_id |-> event_id], NoClock)
              /\ not_found' =
                    IF r.answered.outcome = "http" /\ r.answered.status = "404"
                    THEN [not_found EXCEPT ![event_id] =
                            [n |-> old.n + 1,
                             first |-> IF old.n = 0 THEN r.result ELSE old.first]]
                    ELSE not_found

\* get_all_calendars returns to its caller: the locals are gone.
ReturnFromPaging(raised, cals) ==
    \E out \in {get_all_calendars(raised, cals)} :
        /\ pc' = "returned"
        /\ result' = out.result
        /\ crossed' = (crossed \/ out.crossed)
        /\ service' = NoService
        /\ calendars' = <<>>
        /\ page_token' = NoToken

\* Tool get_all_calendars up to the first page request: authentication and
\* the initialisation of the loop.
Call_get_all_calendars ==
    /\ CanInvoke
    /\ \E w \in AuthWorlds :
          \E a \in {authenticate_google_calendar(env, nInv + 1, w)} :
          \E x \in {GoogleCalendarTools_get_all_calendars_except(a.raised, <<>>)} :
              /\ nInv' = nInv + 1
              /\ cur' = [tool |-> "get_all_calendars", args |-> NoArgs,
                         answered |-> NoResponse, clock |-> NoClock]
              /\ calls' = a.calls
              /\ pages' = <<>>
              /\ IF a.raised # NoExc
                 THEN ReturnFromPaging(x.raised, x.ret)
                 ELSE /\ pc' = "paging"
                      /\ service' = a.service
                      /\ calendars' = <<>>
                      /\ page_token' = NoToken
                      /\ result' = NoResult
                      /\ UNCHANGED crossed
    /\ UNCHANGED <<phase, env, not_found>>

\* One iteration of get_all_calendars' loop, and the return when it ends.
list_page ==
    /\ phase = "serving"
    /\ pc = "paging"
    /\ \E p \in PageResponses(Len(pages)) :
          \E it \in {list_iteration(calendars, page_token, p)} :
          \E x \in {GoogleCalendarTools_get_all_calendars_except(it.raised, it.calendars)} :
              /\ calls' = Append(calls, page_request(service, nInv, page_token))
              /\ cur' = [cur EXCEPT !.answered = p]
              /\ IF it.raised # NoExc
                 THEN /\ ReturnFromPaging(x.raised, x.ret)
                      /\ UNCHANGED pages
                 ELSE /\ pages' = Append(pages, [req |-> page_token, items |-> p.items,
                                                 next |-> p.next])
                      /\ IF it.break
                         THEN ReturnFromPaging(NoExc, it.calendars)
                         ELSE /\ calendars' = it.calendars
                              /\ page_token' = it.page_token
                              /\ UNCHANGED <<pc, service, result, crossed>>
    /\ UNCHANGED <<phase, env, nInv, not_found>>

Next ==
    \/ Startup
    \/ Call_get_all_calendars
    \/ list_page
    \/ Call_get_calendar_events
    \/ Call_create_meet_event
    \/ Call_cancel_calendar_event
    \/ Call_get_today_events
    \/ Call_get_upcoming_events
    \/ Respond

Spec == Init /\ [][Next]_vars

\* The serving loop runs an invocation to completion: a page loop that can
\* take a step does take it.
FairSpec == Spec /\ WF_vars(list_page)

TypeOK ==
    /\ phase \in {"boot", "serving", "crashed"}
    /\ pc \in {"idle", "paging", "returned"}
    /\ nInv \in 0..MaxInvocations
    /\ crossed \in BOOLEAN

\* ------------------------------------------------------ claim vocabulary
HasReturned == pc = "returned"
IsProviderCall(c) == c.kind \in ProviderKinds
CallsOfKind(k) == SelectSeq(calls, LAMBDA c : c.kind = k)
ProviderCalls == SelectSeq(calls, IsProviderCall)
\* The provider answered the invocation's (last) provider call.
Answered == cur.answered.outcome # "none"
EventTools == {"get_calendar_events", "get_today_events", "get_upcoming_events"}
AllTools == EventTools \cup {"get_all_calendars", "create_meet_event", "cancel_calendar_event"}
RECURSIVE Concat(_)
Concat(pgs) == IF pgs = <<>> THEN <<>> ELSE pgs[1].items \o Concat(Tail(pgs))

\* C1: every tool invocation, whatever the vault, the refresh and the
\* provider answer, ends by returning an envelope with a boolean `success`
\* and a `message`; no exception ever leaves a tool function.
C1_EnvelopeAlways ==
    /\ crossed = FALSE
    /\ HasReturned =>
          /\ cur.tool \in AllTools
          /\ {"success", "message"} \subseteq DOMAIN result
          /\ result.success \in BOOLEAN
C1_Witness ==
    /\ HasReturned /\ nInv >= 2
    /\ cur.tool = "get_all_calendars"
    /\ cur.answered.outcome = "fault"
    /\ result.success = FALSE

\* C2 (as claimed): create_meet_event called with an empty summary returns
\* a failure and has issued no remote call at all.
C2_NoRemoteCallOnEmptySummary ==
    (HasReturned /\ cur.tool = "create_meet_event" /\ cur.args.summary = "") =>
        /\ result.success = FALSE
        /\ calls = <<>>

\* C3 (as claimed): a provider call is only ever issued with a credential
\* whose access token is not past its expiry, and an expired credential
\* without refresh token ends the invocation with no provider call.
C3_NoExpiredCredentialUsed ==
    \A i \in 1..Len(calls) : IsProviderCall(calls[i]) => ~calls[i].stale

\* C4 (as claimed): the server never serves while one of the four
\* configuration values is missing.
C4_FailFastAllFour ==
    phase = "serving" => (env.conn /\ env.integ /\ env.base /\ env.key)
\* C4 (amended): the process stops at startup exactly when the connection
\* or the integration identifier is missing; with the vault base URL or
\* secret key missing it serves, and every invocation returns a failure
\* envelope without issuing any remote call.
C4_FailFastIdentifiers ==
    /\ phase = "serving" => (env.conn /\ env.integ)
    /\ phase = "crashed" => (~(env.conn /\ env.integ) /\ nInv = 0)
    /\ (HasReturned /\ ~(env.base /\ env.key)) => (result.success = FALSE /\ calls = <<>>)
C4_Witness == phase = "crashed" /\ env.conn /\ ~env.integ /\ env.base /\ env.key

\* C5: cancel_calendar_event never raises; a provider failure of the delete
\* is returned with success=false and error event_not_found (404),
\* permission_denied (403) or http_error (any other status); two cancels of
\* the same event id both answered 404 return the same result.
C5_CancelMapping ==
    (HasReturned /\ cur.tool = "cancel_calendar_event") =>
        /\ "event_id" \in DOMAIN result
        /\ result.event_id = cur.args.event_id
        /\ cur.answered.outcome = "http" =>
              /\ result.success = FALSE
              /\ result.error = IF cur.answered.status = "404" THEN <<"event_not_found">>
                                ELSE IF cur.answered.status = "403" THEN <<"permission_denied">>
                                ELSE <<"http_error">>
        /\ (cur.answered.outcome = "http" /\ cur.answered.status = "404") =>
              /\ not_found[cur.args.event_id].n >= 1
              /\ result = not_found[cur.args.event_id].first
C5_Witness ==
    /\ HasReturned /\ cur.tool = "cancel_calendar_event"
    /\ cur.answered.status = "404"
    /\ not_found[cur.args.event_id].n = 2

\* What C6 says about every invocation apart from the number of vault reads:
\* a vault read comes before every other remote call, every call belongs to
\* the running invocation and carries the credential that invocation
\* obtained, and no service object outlives its invocation.
C6_OwnCredentialOnly ==
    /\ \A i \in 1..Len(calls) :
          /\ calls[i].inv = nInv
          /\ calls[i].kind = "vault" => i = 1
          /\ IsProviderCall(calls[i]) => (calls[i].cred = nInv /\ calls[1].kind = "vault")
    /\ service # NoService => (pc = "paging" /\ service.id = nInv)
\* C6 (as claimed): each invocation performs exactly one vault read.
C6_ExactlyOneVaultRead ==
    /\ cur.tool # "none" => Len(CallsOfKind("vault")) = 1
    /\ C6_OwnCredentialOnly
\* C6 (amended): each invocation performs exactly one vault read when the
\* vault base URL and secret key are both set, and none otherwise.
C6_OneVaultReadWhenConfigured ==
    /\ cur.tool # "none" =>
          Len(CallsOfKind("vault")) = (IF env.base /\ env.key THEN 1 ELSE 0)
    /\ C6_OwnCredentialOnly
C6_Witness ==
    /\ HasReturned /\ nInv >= 2
    /\ Len(ProviderCalls) >= 1
    /\ Len(CallsOfKind("vault")) = 1

\* The safety part of C7, in every state of a get_all_calendars invocation.
C7_PagesInOrder ==
    cur.tool = "get_all_calendars" =>
        LET reqs == CallsOfKind("calendarList.list")
        IN  /\ Len(reqs) \in {Len(pages), Len(pages) + 1}
            /\ \A k \in 1..Len(reqs) :
                  reqs[k].token = (IF k = 1 THEN NoToken ELSE pages[k - 1].next)
            /\ \A k \in 1..(Len(reqs) - 1) : pages[k].next # NoToken
            /\ pc = "paging" =>
                  /\ Len(reqs) = Len(pages)
                  /\ calendars = Concat(pages)
                  /\ page_token = (IF pages = <<>> THEN NoToken ELSE pages[Len(pages)].next)
            /\ (HasReturned /\ Len(reqs) >= 1 /\ Len(reqs) = Len(pages)) =>
                  /\ pages[Len(pages)].next = NoToken
                  /\ result.success = TRUE
                  /\ result.calendars = Concat(pages)
                  /\ result.total_calendars = Len(Concat(pages))
            /\ (HasReturned /\ result.success) => (Len(reqs) >= 1 /\ Len(reqs) = Len(pages))
\* C7: get_all_calendars returns the concatenation, in page order, of the
\* items of all pages, requests each further page with the token the page
\* before returned, stops exactly at the first page without token, and
\* terminates when the provider returns such a page.
C7_Pagination == [](C7_PagesInOrder) /\ ((pc = "paging") ~> (pc = "returned"))
C7_Witness ==
    /\ HasReturned /\ cur.tool = "get_all_calendars" /\ result.success
    /\ Len(pages) = 3
    /\ pages[1].items # <<>> /\ pages[2].items # <<>> /\ pages[3].items = <<>>
    /\ pages[1].next # pages[2].next

\* C8: when a page fetch of get_all_calendars fails, the tool returns
\* {success:false, error, message} carrying the propagated failure and no
\* calendars, whatever was fetched before; success means every fetch succeeded.
C8_NoPartialCalendars ==
    (HasReturned /\ cur.tool = "get_all_calendars") =>
        /\ cur.answered.outcome \in {"http", "fault"} =>
              /\ result.success = FALSE
              /\ DOMAIN result = {"success", "error", "message"}
              /\ result.error = Str(ProviderExc(cur.answered))
        /\ result.success =>
              /\ cur.answered.outcome = "ok"
              /\ Len(CallsOfKind("calendarList.list")) = Len(pages)
C8_Witness ==
    /\ HasReturned /\ cur.tool = "get_all_calendars"
    /\ cur.answered.outcome = "http"
    /\ Len(pages) = 2 /\ Concat(pages) # <<>>
    /\ result.success = FALSE

\* C9: get_calendar_events (the operation behind three tools) never
\* raises; a provider HTTP error with status s is returned with error
\* http_error_<s>, every other failure with error unexpected_error, and a
\* success carries the provider's events in order with their count.
C9_ListEventsPayload ==
    (HasReturned /\ cur.tool \in EventTools) =>
        /\ "calendar_id" \in DOMAIN result
        /\ result.calendar_id = cur.args.calendar_id
        /\ cur.answered.outcome = "http" =>
              (result.success = FALSE /\ result.error = <<"http_error_", cur.answered.status>>)
        /\ cur.answered.outcome \in {"none", "fault"} =>
              (result.success = FALSE /\ result.error = <<"unexpected_error">>)
        /\ cur.answered.outcome = "ok" =>
              /\ result.success = TRUE
              /\ result.total_events = Len(cur.answered.items)
              /\ Len(result.events) = Len(cur.answered.items)
              /\ \A i \in 1..Len(result.events) : result.events[i].id = cur.answered.items[i]
C9_Witness ==
    /\ HasReturned /\ cur.tool = "get_calendar_events"
    /\ cur.answered.outcome = "http" /\ cur.answered.status = "500"
    /\ result.error = <<"http_error_", "500">>

\* C10 (as claimed): get_today_events called at instant t asks for
\* max_results 50 and for the window from the midnight that starts the local
\* calendar day containing t to the last instant of that day.
C10_TodayWindow ==
    (HasReturned /\ cur.tool = "get_today_events" /\ Answered) =>
        LET t == cur.clock.t
            midnight == start_of_day(t + cur.clock.off) - cur.clock.off
        IN  /\ cur.args.max_results = DerivedMaxResults
            /\ InstantOf(cur.args.time_min) = midnight
            /\ InstantOf(cur.args.time_max) = midnight + (TicksPerDay - 1)
            /\ InstantOf(cur.args.time_min) <= t
            /\ t <= InstantOf(cur.args.time_max)

====
